---- MODULE Spec2Model ----
(***************************************************************************)
(* The reading-list client of src/site/src/App.jsx: the list loader        *)
(* (fetchBooks), the search filter (filteredBooks), the submission form    *)
(* (handleInputChange, handleSubmit), the notification timers, the detail  *)
(* modal and the change-notification listener, together with the remote    *)
(* table they talk to.                                                     *)
(*                                                                         *)
(* A JavaScript string is a sequence of one-character strings, so that     *)
(* toLowerCase and includes are computed character by character.  null is  *)
(* the value Null, which is no string.                                     *)
(***************************************************************************)
EXTENDS Integers, Sequences, FiniteSets, Bags, TLC

VARIABLES
  phase,             \* "new" before the mount effect, "mounted", "unmounted"
  books,             \* useState([]): the local list
  loading,           \* useState(true)
  isSubmitting,      \* useState(false)
  newBook,           \* the five form fields
  searchTerm,        \* useState('')
  showNotification,  \* "false" | "notification-enter" | "notification-exit"
  modalOpen,         \* useState(false)
  selectedBook,      \* <<>> for null, <<book>> otherwise
  paddingRight,      \* document.body.style.paddingRight
  overflow,          \* document.body.style.overflow
  table,             \* the rows of the remote "books" table
  nextId,            \* the next identifier / creation stamp the store hands out
  changes,           \* change notifications on their way to the subscriber
  loads,             \* the bag of fetchBooks calls that have not returned yet
  insertCall,        \* <<>>, or the one insert call of handleSubmit in flight
  timers,            \* the pending setTimeout callbacks, in creation order
  sinceSuccess,      \* ms since the last successful submission (saturating)
  alertText          \* the text of the alert() dialog on screen, "" when none

vars == <<phase, books, loading, isSubmitting, newBook, searchTerm,
          showNotification, modalOpen, selectedBook, paddingRight, overflow,
          table, nextId, changes, loads, insertCall, timers, sinceSuccess,
          alertText>>

----------------------------------------------------------------------------
(* Strings                                                                 *)

Null == <<"null">>

UpperChars == <<"A","B","C","D","E","F","G","H","I","J","K","L","M",
                "N","O","P","Q","R","S","T","U","V","W","X","Y","Z">>

LowerChars == <<"a","b","c","d","e","f","g","h","i","j","k","l","m",
                "n","o","p","q","r","s","t","u","v","w","x","y","z">>

\* String.prototype.toLowerCase, one character
LowerChar(c) ==
  IF \E i \in 1..Len(UpperChars) : UpperChars[i] = c
  THEN LowerChars[CHOOSE i \in 1..Len(UpperChars) : UpperChars[i] = c]
  ELSE c

\* String.prototype.toLowerCase
toLowerCase(s) == [i \in 1..Len(s) |-> LowerChar(s[i])]

\* String.prototype.includes: scan the start positions from the left
RECURSIVE includesFrom(_, _, _)
includesFrom(s, t, k) ==
  IF k + Len(t) - 1 > Len(s) THEN FALSE
  ELSE IF SubSeq(s, k, k + Len(t) - 1) = t THEN TRUE
  ELSE includesFrom(s, t, k + 1)

includes(s, t) == includesFrom(s, t, 1)

----------------------------------------------------------------------------
(* The built-in sample list and the search filter                          *)

initialBooks ==
  <<
     [id |-> 1,
      title |-> <<"T","o"," ","K","i","l","l"," ","a"," ","M","o","c","k","i","n","g","b","i","r","d">>,
      author |-> <<"H","a","r","p","e","r"," ","L","e","e">>,
      genre |-> <<"C","l","a","s","s","i","c">>,
      notes |-> <<"A"," ","p","o","w","e","r","f","u","l"," ","s","t","o","r","y"," ","a","b","o","u","t"," ","r","a","c","i","a","l"," ","i","n","j","u","s","t","i","c","e">>,
      submittedBy |-> <<"J","o","h","n"," ","D","o","e">>],
     [id |-> 2,
      title |-> <<"1","9","8","4">>,
      author |-> <<"G","e","o","r","g","e"," ","O","r","w","e","l","l">>,
      genre |-> <<"D","y","s","t","o","p","i","a","n">>,
      notes |-> <<"A"," ","c","a","u","t","i","o","n","a","r","y"," ","t","a","l","e"," ","a","b","o","u","t"," ","t","o","t","a","l","i","t","a","r","i","a","n","i","s","m">>,
      submittedBy |-> <<"J","a","n","e"," ","S","m","i","t","h">>],
     [id |-> 3,
      title |-> <<"T","h","e"," ","G","r","e","a","t"," ","G","a","t","s","b","y">>,
      author |-> <<"F","."," ","S","c","o","t","t"," ","F","i","t","z","g","e","r","a","l","d">>,
      genre |-> <<"C","l","a","s","s","i","c">>,
      notes |-> <<"E","x","p","l","o","r","e","s"," ","t","h","e","m","e","s"," ","o","f"," ","w","e","a","l","t","h"," ","a","n","d"," ","t","h","e"," ","A","m","e","r","i","c","a","n"," ","D","r","e","a","m">>,
      submittedBy |-> <<"R","o","b","e","r","t"," ","J","o","h","n","s","o","n">>]
  >>

Fields == {"title", "author", "genre", "notes", "submittedBy"}

\* book.f, where an absent property reads as null/undefined
Field(book, f) == IF f \in DOMAIN book THEN book[f] ELSE Null

\* the comparison without lower-casing the field
fieldIncludesExactCase(book, f, term) ==
  /\ Field(book, f) # Null
  /\ includes(Field(book, f), toLowerCase(term))

\* book.f?.toLowerCase().includes(searchTerm.toLowerCase()):
\* the optional chain stops at a null field and the operand is falsy
fieldIncludes(book, f, term) ==
  /\ Field(book, f) # Null
  /\ includes(toLowerCase(Field(book, f)), toLowerCase(term))

\* the predicate handed to books.filter
matchesSearch(book, term) ==
  \/ fieldIncludes(book, "title", term)
  \/ fieldIncludes(book, "author", term)
  \/ fieldIncludes(book, "genre", term)
  \/ fieldIncludes(book, "notes", term)
  \/ fieldIncludes(book, "submittedBy", term)

\* Array.prototype.filter keeps the order of the list
filterBooks(list, term) ==
  LET keep(book) == matchesSearch(book, term) IN SelectSeq(list, keep)

filteredBooks == filterBooks(books, searchTerm)

----------------------------------------------------------------------------
(* The remote table                                                        *)

\* The rows the table holds when the page is opened: one approved row.
SeedRows ==
  { [id |-> 1, created_at |-> 1, title |-> <<"A","b">>, author |-> <<"c">>,
     genre |-> Null, notes |-> Null, submittedBy |-> Null, approved |-> TRUE] }

\* the filter left out
eqApprovedDropped(rows) == rows

\* .eq('approved', true)
eqApproved(rows) == {r \in rows : r.approved = TRUE}

\* the order the other way round
RECURSIVE orderAsc(_)
orderAsc(rows) ==
  IF rows = {} THEN <<>>
  ELSE LET first == CHOOSE r \in rows :
                      \A q \in rows : q.created_at >= r.created_at
       IN  <<first>> \o orderAsc(rows \ {first})

\* .order('created_at', { ascending: false })
RECURSIVE orderDesc(_)
orderDesc(rows) ==
  IF rows = {} THEN <<>>
  ELSE LET first == CHOOSE r \in rows :
                      \A q \in rows : q.created_at <= r.created_at
       IN  <<first>> \o orderDesc(rows \ {first})

\* from('books').select('*').eq('approved', true).order('created_at', ...)
approvedQuery(rows) == orderDesc(eqApproved(rows))

\* the row the store makes of an inserted record
storedRow(submission, id) ==
  [id |-> id, created_at |-> id,
   title |-> submission.title, author |-> submission.author,
   genre |-> submission.genre, notes |-> submission.notes,
   submittedBy |-> submission.submittedBy, approved |-> submission.approved]

\* the subscription left in place by the cleanup
notifyAlways(n) == n + 1

\* a change on the table is pushed to the subscriber while it is subscribed
notify(n) == IF phase = "mounted" THEN n + 1 ELSE n

----------------------------------------------------------------------------
(* Bounds and timer constants                                              *)

MaxLoads == 2       \* fetchBooks calls in flight at once under LoadSpec
MaxRefresh == 1     \* the same under the other specifications
MaxChanges == 1     \* change notifications in flight at once
MaxId == 2          \* last identifier the store hands out (one insert)
MaxIdNotify == 3    \* the same under NotifySpec (two inserts)
MaxIdLoad == 2      \* the same under LoadSpec (one row of another writer)
MaxIdForm == 2      \* the same under FormSpec (one insert)

DwellMs == 2000
FadeMs == 1000

\* the clock advances in steps of half a fade
Quantum == FadeMs \div 2

\* sinceSuccess stops counting one step after a whole cycle
Long == DwellMs + FadeMs + Quantum

\* the scrollbar widths openBookModal can measure
ScrollBarWidths == {0, 15}

\* what the fields of the form can be set to
FormValues == {<<>>, <<"a">>}

----------------------------------------------------------------------------
(* State after construction: the useState initial values                   *)

emptyForm ==
  [title |-> <<>>, author |-> <<>>, genre |-> <<>>, notes |-> <<>>,
   submittedBy |-> <<>>]

Init ==
  /\ phase = "new"
  /\ books = <<>>
  /\ loading = TRUE
  /\ isSubmitting = FALSE
  /\ newBook = emptyForm
  /\ searchTerm = <<>>
  /\ showNotification = "false"
  /\ modalOpen = FALSE
  /\ selectedBook = <<>>
  /\ paddingRight = ""
  /\ overflow = ""
  /\ table = SeedRows
  /\ nextId = Cardinality(SeedRows) + 1
  /\ changes = 0
  /\ loads = EmptyBag
  /\ insertCall = <<>>
  /\ timers = <<>>
  /\ sinceSuccess = Long
  /\ alertText = ""

Remove(seq, k) == SubSeq(seq, 1, k - 1) \o SubSeq(seq, k + 1, Len(seq))

uiVars == <<searchTerm, modalOpen, selectedBook, paddingRight, overflow>>
formVars == <<isSubmitting, newBook, insertCall, alertText>>
storeVars == <<table, nextId, changes>>
timerVars == <<showNotification, timers, sinceSuccess>>
listVars == <<books, loading, loads>>

----------------------------------------------------------------------------
(* The list loader, fetchBooks                                             *)

\* fetchBooks up to its first await: setLoading(true), the probe is sent
probeSent == [pc |-> "probe", failed |-> FALSE, data |-> <<>>]

\* one call moves on: old leaves the bag, new enters it
replaced(bag, old, new) == (bag (-) SetToBag({old})) (+) SetToBag({new})

\* useEffect: fetchBooks() and the subscription
Mount ==
  /\ phase = "new"
  /\ phase' = "mounted"
  /\ loading' = TRUE
  /\ loads' = loads (+) SetToBag({probeSent})
  /\ UNCHANGED <<books, uiVars, formVars, storeVars, timerVars>>

\* the cleanup of useEffect: removeChannel
Unmount ==
  /\ phase = "mounted"
  /\ alertText = ""
  /\ phase' = "unmounted"
  /\ changes' = 0
  /\ UNCHANGED <<listVars, uiVars, formVars, table, nextId, timerVars>>

\* the subscription callback: fetchBooks(), whatever the payload
ChangeDelivered(maxLoads) ==
  /\ phase = "mounted"
  /\ alertText = ""
  /\ changes > 0
  /\ BagCardinality(loads) < maxLoads
  /\ changes' = changes - 1
  /\ loading' = TRUE
  /\ loads' = loads (+) SetToBag({probeSent})
  /\ UNCHANGED <<phase, books, uiVars, formVars, table, nextId, timerVars>>

\* setLoading(false) at the end of the try block instead of in finally
ProbeReturnNoFinally(load, outcome) ==
  /\ alertText = ""
  /\ BagIn(load, loads)
  /\ load.pc = "probe"
  /\ IF outcome = "ok"
     THEN /\ loads' = replaced(loads, load, [load EXCEPT !.pc = "all"])
          /\ UNCHANGED <<books, loading>>
     ELSE /\ books' = initialBooks
          /\ loads' = loads (-) SetToBag({load})
          /\ UNCHANGED loading
  /\ UNCHANGED <<phase, uiVars, formVars, storeVars, timerVars>>

\* the probe select('count') returns; testError throws into the catch
\* block (sample list) and the finally block clears the flag
ProbeReturn(load, outcome) ==
  /\ alertText = ""
  /\ BagIn(load, loads)
  /\ load.pc = "probe"
  /\ IF outcome = "ok"
     THEN /\ loads' = replaced(loads, load, [load EXCEPT !.pc = "all"])
          /\ UNCHANGED <<books, loading>>
     ELSE /\ books' = initialBooks
          /\ loading' = FALSE
          /\ loads' = loads (-) SetToBag({load})
  /\ UNCHANGED <<phase, uiVars, formVars, storeVars, timerVars>>

\* the unfiltered select('*') returns; its error is only logged
AllReturn(load, outcome) ==
  /\ alertText = ""
  /\ BagIn(load, loads)
  /\ load.pc = "all"
  /\ outcome \in {"ok", "error"}
  /\ loads' = replaced(loads, load, [load EXCEPT !.pc = "query"])
  /\ UNCHANGED <<phase, books, loading, uiVars, formVars, storeVars,
                 timerVars>>

\* the store runs the filtered, ordered query and sends its answer
StoreAnswersQuery(load, outcome) ==
  /\ BagIn(load, loads)
  /\ load.pc = "query"
  /\ loads' = replaced(loads, load,
                       IF outcome = "ok"
                       THEN [pc |-> "answered", failed |-> FALSE,
                             data |-> approvedQuery(table)]
                       ELSE [pc |-> "answered", failed |-> TRUE,
                             data |-> <<>>])
  /\ UNCHANGED <<phase, books, loading, uiVars, formVars, storeVars,
                 timerVars>>

\* the catch block without its fallback
QueryReturnKeepsList(load) ==
  /\ alertText = ""
  /\ BagIn(load, loads)
  /\ load.pc = "answered"
  /\ books' = IF load.failed THEN books ELSE load.data
  /\ loading' = FALSE
  /\ loads' = loads (-) SetToBag({load})
  /\ UNCHANGED <<phase, uiVars, formVars, storeVars, timerVars>>

\* an answer is dropped while another load is in flight
QueryReturnUnlessOverlapping(load) ==
  /\ alertText = ""
  /\ BagIn(load, loads)
  /\ load.pc = "answered"
  /\ books' = IF BagCardinality(loads) > 1 THEN books
              ELSE IF load.failed THEN initialBooks ELSE load.data
  /\ loading' = FALSE
  /\ loads' = loads (-) SetToBag({load})
  /\ UNCHANGED <<phase, uiVars, formVars, storeVars, timerVars>>

\* the answer arrives: setBooks(data), or the catch block; then finally
QueryReturn(load) ==
  /\ alertText = ""
  /\ BagIn(load, loads)
  /\ load.pc = "answered"
  /\ books' = IF load.failed THEN initialBooks ELSE load.data
  /\ loading' = FALSE
  /\ loads' = loads (-) SetToBag({load})
  /\ UNCHANGED <<phase, uiVars, formVars, storeVars, timerVars>>

\* a moderator sets or clears the approval of a row (outside this client)
ExternalSetApproved(id, flag) ==
  /\ \E r \in table : r.id = id /\ r.approved # flag
  /\ phase = "mounted" => changes < MaxChanges
  /\ table' = {IF r.id = id THEN [r EXCEPT !.approved = flag] ELSE r :
               r \in table}
  /\ changes' = notify(changes)
  /\ UNCHANGED <<phase, listVars, uiVars, formVars, nextId, timerVars>>

\* what a row written by somebody else holds in its five text columns:
\* the sparsest row, with no column filled in
OtherFields ==
  { [title |-> Null, author |-> Null, genre |-> Null, notes |-> Null,
     submittedBy |-> Null] }

\* somebody else inserts a row, approved or not (outside this client)
ExternalInsert(fields, flag, maxId) ==
  /\ nextId <= maxId
  /\ phase = "mounted" => changes < MaxChanges
  /\ table' = table \cup
                {storedRow([f \in Fields \cup {"approved"} |->
                              IF f = "approved" THEN flag ELSE fields[f]],
                           nextId)}
  /\ nextId' = nextId + 1
  /\ changes' = notify(changes)
  /\ UNCHANGED <<phase, listVars, uiVars, formVars, timerVars>>

\* a moderator deletes a row (outside this client)
ExternalDelete(id) ==
  /\ \E r \in table : r.id = id
  /\ phase = "mounted" => changes < MaxChanges
  /\ table' = {r \in table : r.id # id}
  /\ changes' = notify(changes)
  /\ UNCHANGED <<phase, listVars, uiVars, formVars, nextId, timerVars>>

----------------------------------------------------------------------------
(* The submission form                                                     *)

\* handleInputChange: setNewBook({...newBook, [name]: value})
handleInputChange(name, value) ==
  /\ phase = "mounted"
  /\ alertText = ""
  /\ ~isSubmitting
  /\ name \in Fields
  /\ newBook[name] # value
  /\ newBook' = [newBook EXCEPT ![name] = value]
  /\ UNCHANGED <<phase, listVars, uiVars, isSubmitting, insertCall,
                 alertText, storeVars, timerVars>>

\* the flag taken for granted
submissionApproved(form) ==
  [f \in DOMAIN form \cup {"approved"} |->
     IF f = "approved" THEN TRUE ELSE form[f]]

\* { ...newBook, approved: false }
submissionOf(form) ==
  [f \in DOMAIN form \cup {"approved"} |->
     IF f = "approved" THEN FALSE ELSE form[f]]

\* handleSubmit up to its await: the validation, setIsSubmitting(true),
\* the insert is sent
\* the author left unchecked
invalidTitleOnly(form) == form.title = <<>>

\* !newBook.title || !newBook.author
invalid(form) ==
  form.title = <<>> \/ form.author = <<>>

\* the submit button left enabled during a submission
handleSubmitWhileSubmitting ==
  /\ phase = "mounted"
  /\ alertText = ""
  /\ IF invalid(newBook)
     THEN /\ alertText' = "Title and author are required."
          /\ UNCHANGED <<isSubmitting, insertCall>>
     ELSE /\ isSubmitting' = TRUE
          /\ insertCall' = <<[stage |-> "sent",
                              submission |-> submissionOf(newBook)]>>
          /\ UNCHANGED alertText
  /\ UNCHANGED <<phase, listVars, uiVars, newBook, storeVars, timerVars>>

handleSubmit ==
  /\ phase = "mounted"
  /\ alertText = ""
  /\ ~isSubmitting
  /\ IF invalid(newBook)
     THEN /\ alertText' = "Title and author are required."
          /\ UNCHANGED <<isSubmitting, insertCall>>
     ELSE /\ isSubmitting' = TRUE
          /\ insertCall' = <<[stage |-> "sent",
                              submission |-> submissionOf(newBook)]>>
          /\ UNCHANGED alertText
  /\ UNCHANGED <<phase, listVars, uiVars, newBook, storeVars, timerVars>>

\* the store runs the insert (ids up to maxId), or refuses it
StoreInsert(outcome, maxId) ==
  /\ insertCall # <<>>
  /\ insertCall[1].stage = "sent"
  /\ IF outcome = "ok"
     THEN /\ nextId <= maxId
          /\ phase = "mounted" => changes < MaxChanges
          /\ table' = table \cup {storedRow(insertCall[1].submission, nextId)}
          /\ nextId' = nextId + 1
          /\ changes' = notify(changes)
          /\ insertCall' = <<[insertCall[1] EXCEPT !.stage = "ok"]>>
     ELSE /\ insertCall' = <<[insertCall[1] EXCEPT !.stage = "error"]>>
          /\ UNCHANGED storeVars
  /\ UNCHANGED <<phase, listVars, uiVars, isSubmitting, newBook, alertText,
                 timerVars>>

\* error.message of a refused insert
errorMessage == "insert failed"

\* a new cycle begins: the timers of earlier cycles are still pending
olderCycle(ts) == [k \in 1..Len(ts) |-> [ts[k] EXCEPT !.stale = TRUE]]

\* the form reset moved out of the try block, so that it runs on an error too
InsertReturnResetsForm(maxLoads) ==
  /\ alertText = ""
  /\ insertCall # <<>>
  /\ insertCall[1].stage \in {"ok", "error"}
  /\ newBook' = emptyForm
  /\ IF insertCall[1].stage = "ok"
     THEN /\ BagCardinality(loads) < maxLoads
          /\ showNotification' = "notification-enter"
          /\ timers' = Append(olderCycle(timers),
                              [remaining |-> DwellMs, kind |-> "exit",
                               stale |-> FALSE])
          /\ sinceSuccess' = 0
          /\ loading' = TRUE
          /\ loads' = loads (+) SetToBag({probeSent})
          /\ UNCHANGED alertText
          /\ isSubmitting' = FALSE
          /\ insertCall' = <<>>
     ELSE /\ alertText' = "Error: " \o errorMessage
          /\ insertCall' = <<[insertCall[1] EXCEPT !.stage = "caught"]>>
          /\ UNCHANGED <<timerVars, loading, loads, isSubmitting>>
  /\ UNCHANGED <<phase, books, uiVars, storeVars>>

\* the success path without its fetchBooks() call
InsertReturnNoRefresh(maxLoads) ==
  /\ alertText = ""
  /\ insertCall # <<>>
  /\ insertCall[1].stage \in {"ok", "error"}
  /\ IF insertCall[1].stage = "ok"
     THEN /\ showNotification' = "notification-enter"
          /\ timers' = Append(olderCycle(timers),
                              [remaining |-> DwellMs, kind |-> "exit",
                               stale |-> FALSE])
          /\ sinceSuccess' = 0
          /\ newBook' = emptyForm
          /\ UNCHANGED <<alertText, loading, loads>>
          /\ isSubmitting' = FALSE
          /\ insertCall' = <<>>
     ELSE /\ alertText' = "Error: " \o errorMessage
          /\ insertCall' = <<[insertCall[1] EXCEPT !.stage = "caught"]>>
          /\ UNCHANGED <<timerVars, newBook, loading, loads, isSubmitting>>
  /\ UNCHANGED <<phase, books, uiVars, storeVars>>

\* handleSubmit after its await: notification and timer, form reset and
\* fetchBooks() on success, alert on error, setIsSubmitting(false) always
InsertReturn(maxLoads) ==
  /\ alertText = ""
  /\ insertCall # <<>>
  /\ insertCall[1].stage \in {"ok", "error"}
  /\ IF insertCall[1].stage = "ok"
     THEN /\ BagCardinality(loads) < maxLoads
          /\ showNotification' = "notification-enter"
          /\ timers' = Append(olderCycle(timers),
                              [remaining |-> DwellMs, kind |-> "exit",
                               stale |-> FALSE])
          /\ sinceSuccess' = 0
          /\ newBook' = emptyForm
          /\ loading' = TRUE
          /\ loads' = loads (+) SetToBag({probeSent})
          /\ UNCHANGED alertText
          /\ isSubmitting' = FALSE
          /\ insertCall' = <<>>
     ELSE /\ alertText' = "Error: " \o errorMessage
          /\ insertCall' = <<[insertCall[1] EXCEPT !.stage = "caught"]>>
          /\ UNCHANGED <<timerVars, newBook, loading, loads, isSubmitting>>
  /\ UNCHANGED <<phase, books, uiVars, storeVars>>

\* setIsSubmitting(false) at the end of the try block instead of in finally
dismissAlertKeepsFlag ==
  /\ alertText # ""
  /\ alertText' = ""
  /\ IF insertCall # <<>> /\ insertCall[1].stage = "caught"
     THEN /\ insertCall' = <<>>
          /\ UNCHANGED isSubmitting
     ELSE UNCHANGED <<isSubmitting, insertCall>>
  /\ UNCHANGED <<phase, listVars, uiVars, newBook, storeVars, timerVars>>

\* the user dismisses the dialog and the handler that called alert() goes
\* on: handleSubmit's catch block falls through to setIsSubmitting(false)
dismissAlert ==
  /\ alertText # ""
  /\ alertText' = ""
  /\ IF insertCall # <<>> /\ insertCall[1].stage = "caught"
     THEN /\ isSubmitting' = FALSE
          /\ insertCall' = <<>>
     ELSE UNCHANGED <<isSubmitting, insertCall>>
  /\ UNCHANGED <<phase, listVars, uiVars, newBook, storeVars, timerVars>>

----------------------------------------------------------------------------
(* The notification timers                                                 *)

\* Quantum ms pass; a timer that is due runs before the clock moves on,
\* and a dialog is dismissed before it does
Tick ==
  /\ alertText = ""
  /\ \A k \in 1..Len(timers) : timers[k].remaining > 0
  /\ timers # <<>> \/ sinceSuccess < Long
  /\ timers' = [k \in 1..Len(timers) |->
                  [timers[k] EXCEPT !.remaining = @ - Quantum]]
  /\ sinceSuccess' = IF sinceSuccess + Quantum > Long THEN Long
                     ELSE sinceSuccess + Quantum
  /\ UNCHANGED <<phase, listVars, uiVars, formVars, storeVars,
                 showNotification>>

\* the oldest due timer
dueTimer == CHOOSE k \in 1..Len(timers) :
              /\ timers[k].remaining = 0
              /\ \A j \in 1..(k - 1) : timers[j].remaining # 0

\* a setTimeout callback runs: the outer one sets the exit class and arms
\* the inner one, the inner one hides the notification
FireTimer ==
  /\ alertText = ""
  /\ \E k \in 1..Len(timers) : timers[k].remaining = 0
  /\ IF timers[dueTimer].kind = "exit"
     THEN /\ showNotification' = "notification-exit"
          /\ timers' = Append(Remove(timers, dueTimer),
                              [remaining |-> FadeMs, kind |-> "hide",
                               stale |-> timers[dueTimer].stale])
     ELSE /\ showNotification' = "false"
          /\ timers' = Remove(timers, dueTimer)
  /\ UNCHANGED <<phase, listVars, uiVars, formVars, storeVars, sinceSuccess>>

----------------------------------------------------------------------------
(* Search box and detail modal                                             *)

\* onChange of the search input
setSearchTerm(term) ==
  /\ phase = "mounted"
  /\ alertText = ""
  /\ term # searchTerm
  /\ searchTerm' = term
  /\ UNCHANGED <<phase, listVars, modalOpen, selectedBook, paddingRight,
                 overflow, formVars, storeVars, timerVars>>

\* the rows of the table on the page
tableRows == IF phase = "mounted" /\ ~loading THEN filteredBooks ELSE <<>>

\* handlers of the page run while no alert() dialog blocks it
clickable == phase = "mounted" /\ alertText = ""

\* the entry in the modal on the page
modalEntry ==
  IF phase = "mounted" /\ modalOpen /\ selectedBook # <<>>
  THEN selectedBook ELSE <<>>

\* `${scrollBarWidth}px`
px(width) == ToString(width) \o "px"

\* opening without the scroll lock
openBookModalNoLock(k, scrollBarWidth) ==
  /\ clickable
  /\ k \in 1..Len(tableRows)
  /\ paddingRight' = IF scrollBarWidth > 0 THEN px(scrollBarWidth)
                     ELSE paddingRight
  /\ selectedBook' = <<tableRows[k]>>
  /\ modalOpen' = TRUE
  /\ UNCHANGED <<phase, listVars, searchTerm, overflow, formVars, storeVars,
                 timerVars>>

\* the (...) button of row k, with the scrollbar width measured
openBookModal(k, scrollBarWidth) ==
  /\ clickable
  /\ k \in 1..Len(tableRows)
  /\ paddingRight' = IF scrollBarWidth > 0 THEN px(scrollBarWidth)
                     ELSE paddingRight
  /\ overflow' = "hidden"
  /\ selectedBook' = <<tableRows[k]>>
  /\ modalOpen' = TRUE
  /\ UNCHANGED <<phase, listVars, searchTerm, formVars, storeVars, timerVars>>

\* closing without the reset of the padding
closeBookModalKeepsPadding ==
  /\ clickable
  /\ modalEntry # <<>>
  /\ overflow' = "auto"
  /\ modalOpen' = FALSE
  /\ UNCHANGED <<phase, listVars, searchTerm, selectedBook, paddingRight,
                 formVars, storeVars, timerVars>>

\* the close button or a click on the overlay
closeBookModal ==
  /\ clickable
  /\ modalEntry # <<>>
  /\ paddingRight' = "0"
  /\ overflow' = "auto"
  /\ modalOpen' = FALSE
  /\ UNCHANGED <<phase, listVars, searchTerm, selectedBook, formVars,
                 storeVars, timerVars>>

----------------------------------------------------------------------------
(* Specifications.  Each one is the whole program under one choice of     *)
(* what the user and the other parties do.                                 *)

Outcomes == {"ok", "error"}
ProbeOutcomes == {"ok", "42P01", "error"}

\* The page in use: loads, change notifications, a moderator who sets and
\* clears the approval of the seed row, submissions (title and author
\* typed) and the modal.
Next ==
  \/ Mount
  \/ ChangeDelivered(MaxRefresh)
  \/ \E load \in BagToSet(loads) : \E o \in ProbeOutcomes : ProbeReturn(load, o)
  \/ \E load \in BagToSet(loads) : \E o \in Outcomes : AllReturn(load, o)
  \/ \E load \in BagToSet(loads) : \E o \in Outcomes : StoreAnswersQuery(load, o)
  \/ \E load \in BagToSet(loads) : QueryReturn(load)
  \/ \E id \in 1..Cardinality(SeedRows), flag \in BOOLEAN :
       ExternalSetApproved(id, flag)
  \/ \E v \in FormValues : handleInputChange("title", v)
  \/ \E v \in FormValues : handleInputChange("author", v)
  \/ handleSubmit
  \/ dismissAlert
  \/ \E o \in Outcomes : StoreInsert(o, MaxId)
  \/ InsertReturn(MaxRefresh)
  \/ \E k \in 1..Len(tableRows), w \in ScrollBarWidths : openBookModal(k, w)
  \/ closeBookModal

Spec == Init /\ [][Next]_vars

\* The list loader against a table that other parties insert into, update
\* and delete from, with overlapping loads and the teardown of the view.
LoadNext ==
  \/ Mount
  \/ Unmount
  \/ ChangeDelivered(MaxLoads)
  \/ \E load \in BagToSet(loads) : \E o \in ProbeOutcomes : ProbeReturn(load, o)
  \/ \E load \in BagToSet(loads) : \E o \in Outcomes : AllReturn(load, o)
  \/ \E load \in BagToSet(loads) : \E o \in Outcomes : StoreAnswersQuery(load, o)
  \/ \E load \in BagToSet(loads) : QueryReturn(load)
  \/ \E id \in 1..MaxIdLoad, flag \in BOOLEAN : ExternalSetApproved(id, flag)
  \/ \E fs \in OtherFields, flag \in BOOLEAN :
       ExternalInsert(fs, flag, MaxIdLoad)
  \/ \E id \in 1..MaxIdLoad : ExternalDelete(id)

LoadSpec == Init /\ [][LoadNext]_vars

\* The form with all five fields in use, and what a submission sets off.
FormNext ==
  \/ Mount
  \/ ChangeDelivered(MaxRefresh)
  \/ \E load \in BagToSet(loads) : \E o \in ProbeOutcomes : ProbeReturn(load, o)
  \/ \E load \in BagToSet(loads) : \E o \in Outcomes : AllReturn(load, o)
  \/ \E load \in BagToSet(loads) : \E o \in Outcomes : StoreAnswersQuery(load, o)
  \/ \E load \in BagToSet(loads) : QueryReturn(load)
  \/ \E name \in Fields, v \in FormValues : handleInputChange(name, v)
  \/ handleSubmit
  \/ dismissAlert
  \/ \E o \in Outcomes : StoreInsert(o, MaxIdForm)
  \/ InsertReturn(MaxRefresh)

FormSpec == Init /\ [][FormNext]_vars

\* Submissions with the clock running and the timers firing.
NotifyNext ==
  \/ Mount
  \/ ChangeDelivered(MaxRefresh)
  \/ \E load \in BagToSet(loads) : \E o \in ProbeOutcomes : ProbeReturn(load, o)
  \/ \E load \in BagToSet(loads) : \E o \in Outcomes : AllReturn(load, o)
  \/ \E load \in BagToSet(loads) : \E o \in Outcomes : StoreAnswersQuery(load, o)
  \/ \E load \in BagToSet(loads) : QueryReturn(load)
  \/ handleInputChange("title", <<"a">>)
  \/ handleInputChange("author", <<"a">>)
  \/ handleSubmit
  \/ dismissAlert
  \/ \E o \in Outcomes : StoreInsert(o, MaxIdNotify)
  \/ InsertReturn(MaxRefresh)
  \/ Tick
  \/ FireTimer

NotifySpec == Init /\ [][NotifyNext]_vars

\* The search filter as a function of the list and the search string: the
\* list is any list of up to MaxLen rows, every string can be typed.
MaxLen == 2

FilterValues == {Null, <<>>, <<"c","A","b">>}
FilterOthers == {Null, <<"x">>}
FilterTerms == {<<>>, <<"a","B">>, <<"b","a">>, <<"X">>}

\* rows in which one column holds one value and the other four another
FilterRows ==
  { [f \in Fields |-> IF f = g THEN v ELSE w] :
      g \in Fields, v \in FilterValues, w \in FilterOthers }

FilterLists ==
  UNION { [1..n -> FilterRows] : n \in 0..MaxLen }

FilterInit ==
  /\ phase = "mounted"
  /\ books \in FilterLists
  /\ loading = FALSE
  /\ isSubmitting = FALSE
  /\ newBook = emptyForm
  /\ searchTerm = <<>>
  /\ showNotification = "false"
  /\ modalOpen = FALSE
  /\ selectedBook = <<>>
  /\ paddingRight = ""
  /\ overflow = ""
  /\ table = SeedRows
  /\ nextId = Cardinality(SeedRows) + 1
  /\ changes = 0
  /\ loads = EmptyBag
  /\ insertCall = <<>>
  /\ timers = <<>>
  /\ sinceSuccess = Long
  /\ alertText = ""

FilterNext == \E term \in FilterTerms : setSearchTerm(term)

FilterSpec == FilterInit /\ [][FilterNext]_vars

----------------------------------------------------------------------------
(* Claims                                                                  *)

Range(seq) == {seq[k] : k \in 1..Len(seq)}

\* the entries on the page: the rows of the table and the modal's entry
displayed == Range(tableRows) \cup Range(modalEntry)

\* the entry carries an approval flag and the flag is true
approvedEntry(book) == "approved" \in DOMAIN book /\ book.approved = TRUE

\* C1 as stated: every entry on the page has its approval flag true, after
\* any loads (successful or failed), notifications, submissions and modal
\* openings.
C1_DisplayedAreApproved == \A book \in displayed : approvedEntry(book)

\* C1 amended: every entry on the page either has its approval flag true
\* or is one of the three built-in sample entries, which carry no flag.
C1_DisplayedAreApprovedOrSample ==
  \A book \in displayed :
    approvedEntry(book) \/ book \in Range(initialBooks)

\* an approved row is in the table and in the modal while the store holds
\* a submitted row that nobody approved
C1_Witness ==
  /\ \E book \in Range(tableRows) : approvedEntry(book)
  /\ modalEntry # <<>>
  /\ approvedEntry(modalEntry[1])
  /\ \E r \in table : r.id > Cardinality(SeedRows) /\ ~r.approved

\* C2: the only write the client issues is an insert; every record it
\* sends, and every row the store makes of one, has approved = FALSE
\* whatever the form holds; no step of the client adds a row to, or takes
\* one from, the approved rows of the store.
C2_OnlyUnapprovedInserts ==
  [][/\ insertCall' # <<>> => insertCall'[1].submission.approved = FALSE
     /\ table' # table =>
          \E r \in table' : /\ r \notin table
                            /\ table' = table \cup {r}
                            /\ r.approved = FALSE
     /\ {r \in table' : r.approved} = {r \in table : r.approved}]_vars

\* a row made of a form with all five fields filled in is in the store
C2_Witness ==
  \E r \in table :
    /\ r.id > Cardinality(SeedRows)
    /\ r.approved = FALSE
    /\ \A f \in Fields : r[f] = <<"a">>

\* C3: a submit with an empty title or an empty author issues no insert:
\* handleSubmit shows the validation alert and leaves the in-progress flag
\* false, the form, the notification, the loads and the store as they were.
C3_InvalidSubmitAborts ==
  [][(newBook.title = <<>> \/ newBook.author = <<>>) =>
       /\ insertCall = <<>> => insertCall' = <<>>
       /\ handleSubmit =>
            /\ alertText' = "Title and author are required."
            /\ isSubmitting' = FALSE
            /\ UNCHANGED <<newBook, insertCall, timerVars, listVars,
                           storeVars>>]_vars

\* the validation alert is up for a form with a title and no author, and
\* nothing was sent
C3_Witness ==
  /\ alertText = "Title and author are required."
  /\ newBook.title # <<>>
  /\ newBook.author = <<>>
  /\ insertCall = <<>>
  /\ ~isSubmitting

\* the titles of the built-in sample list, in order
sampleTitles ==
  << <<"T","o"," ","K","i","l","l"," ","a"," ","M","o","c","k","i","n","g",
       "b","i","r","d">>,
     <<"1","9","8","4">>,
     <<"T","h","e"," ","G","r","e","a","t"," ","G","a","t","s","b","y">> >>

\* load i fails in this step: its probe returns an error (table absent or
\* any other), or its filtered query has returned an error
loadFails(load) ==
  \/ \E o \in {"42P01", "error"} : ProbeReturn(load, o)
  \/ QueryReturn(load) /\ load.failed

\* C4: whenever a load fails, the local list becomes exactly the built-in
\* list of three ("To Kill a Mockingbird", "1984", "The Great Gatsby"),
\* whatever it held before, and the loading flag is cleared.
C4_FailedLoadShowsSamples ==
  [][\A load \in BagToSet(loads) :
       loadFails(load) =>
         /\ books' = initialBooks
         /\ [k \in 1..Len(books') |-> books'[k].title] = sampleTitles
         /\ loading' = FALSE]_vars

\* the sample list is on the page in place of the rows of the store
C4_Witness ==
  /\ phase = "mounted"
  /\ books = initialBooks
  /\ ~loading
  /\ Len(tableRows) = Len(sampleTitles)
  /\ eqApproved(table) # {}

\* C5: while at least one load is outstanding the loading flag is true (the
\* page shows the placeholder, not the table), also when loads overlap.
C5_LoadingWhileOutstanding ==
  (phase = "mounted" /\ loads # EmptyBag) => loading

\* seq lists exactly the approved rows of rows, newest first
approvedNewestFirst(seq, rows) ==
  /\ \A k \in 1..Len(seq) : seq[k] \in rows /\ seq[k].approved = TRUE
  /\ \A r \in rows : r.approved = TRUE => \E k \in 1..Len(seq) : seq[k] = r
  /\ \A j, k \in 1..Len(seq) :
       j < k => seq[j].created_at > seq[k].created_at

\* C6: a load whose probe and filtered query succeed replaces the whole
\* local list by the answer to that query, which is exactly the rows with
\* approved = TRUE at the time of the query, newest first.
C6_LoadReplacesWithApprovedNewestFirst ==
  [][/\ \A answer \in BagToSet(loads') :
          (/\ answer.pc = "answered"
           /\ ~answer.failed
           /\ CopiesIn(answer, loads') > CopiesIn(answer, loads)) =>
            approvedNewestFirst(answer.data, table)
     /\ \A load \in BagToSet(loads) :
          (QueryReturn(load) /\ ~load.failed) =>
            /\ books' = load.data
            /\ approvedNewestFirst(books', Range(books'))]_vars

\* a successful load has put two approved rows on the page, the newer one
\* first, in place of the sample list
C6_Witness ==
  /\ phase = "mounted"
  /\ ~loading
  /\ Len(books) = Cardinality(SeedRows) + 1
  /\ books[1].created_at > books[Len(books)].created_at
  /\ \A k \in 1..Len(books) : approvedEntry(books[k])

\* two characters that differ at most in case
sameLetter(c, d) ==
  \/ c = d
  \/ \E n \in 1..Len(UpperChars) :
       {c, d} = {UpperChars[n], LowerChars[n]}

\* term occurs in text at some offset, case ignored
occursIn(term, text) ==
  \E off \in 0..(Len(text) - Len(term)) :
    \A j \in 1..Len(term) : sameLetter(text[off + j], term[j])

\* some searched field of the row is a string in which term occurs
rowHit(book, term) ==
  \E f \in Fields :
    f \in DOMAIN book /\ book[f] # Null /\ occursIn(term, book[f])

\* C7: for every list L and search string s the filtered view is the
\* subsequence of L, in L's order, of exactly the rows in which s occurs,
\* case ignored, in the title, author, tags, notes or contributor; a null
\* field does not match.
C7_FilterIsMatchingSubsequence ==
  LET hits == {i \in 1..Len(books) : rowHit(books[i], searchTerm)}
  IN  \E pos \in [1..Len(filteredBooks) -> 1..Len(books)] :
        /\ \A a, b \in 1..Len(filteredBooks) : a < b => pos[a] < pos[b]
        /\ \A a \in 1..Len(filteredBooks) : filteredBooks[a] = books[pos[a]]
        /\ {pos[a] : a \in 1..Len(filteredBooks)} = hits

\* of two rows the first is dropped and the second kept, the second for a
\* match in another case beside a null field
C7_Witness ==
  /\ Len(books) = MaxLen
  /\ searchTerm = <<"a","B">>
  /\ filteredBooks = <<books[Len(books)]>>
  /\ books[1] # books[Len(books)]
  /\ \E f \in Fields : books[Len(books)][f] = Null

\* C8: for every list L, filtering with the empty search string returns L
\* unchanged in order and content, also when some or all of the five
\* searched fields of a row are null.
C8_EmptySearchKeepsList == searchTerm = <<>> => filteredBooks = books

\* C9: after a successful submission at time t the notification is entering
\* until t+2000ms, exiting from then until t+3000ms and hidden after that
\* (sinceSuccess is the time since the last successful submission; at
\* t+2000ms and t+3000ms themselves the timer may be about to run).
C9_NotificationFollowsSchedule ==
  /\ sinceSuccess < DwellMs => showNotification = "notification-enter"
  /\ (DwellMs < sinceSuccess /\ sinceSuccess < DwellMs + FadeMs) =>
       showNotification = "notification-exit"
  /\ sinceSuccess > DwellMs + FadeMs => showNotification = "false"

\* C10: one cycle is tracked at a time: once a later successful submission
\* has restarted the sequence, a timer of the earlier cycle that runs
\* changes nothing of the notification.
C10_EarlierTimersAreInert ==
  [][(FireTimer /\ timers[dueTimer].stale) => UNCHANGED showNotification]_vars

\* the insert of the submission in flight was refused by the store
insertFailed ==
  insertCall # <<>> /\ insertCall[1].stage \in {"error", "caught"}

\* C11: when the insert of a submission fails, the error is reported in an
\* alert and the five form fields hold exactly what was submitted, until
\* the dialog is dismissed and after; no notification cycle is started
\* and no load is started by that submission.
C11_FailedInsertKeepsForm ==
  [][(insertFailed /\ (InsertReturn(MaxRefresh) \/ dismissAlert)) =>
       /\ InsertReturn(MaxRefresh) => alertText' = "Error: " \o errorMessage
       /\ \A f \in Fields : newBook'[f] = insertCall[1].submission[f]
       /\ UNCHANGED <<timerVars, listVars>>]_vars

\* the error dialog of a refused insert is up over a form with all five
\* fields filled in; nothing was started
C11_Witness ==
  /\ alertText = "Error: " \o errorMessage
  /\ insertFailed
  /\ \A f \in Fields : newBook[f] = <<"a">>
  /\ showNotification = "false"
  /\ timers = <<>>
  /\ loads = EmptyBag
  /\ ~loading

\* the store has accepted the insert of the submission in flight
insertAccepted == insertCall # <<>> /\ insertCall[1].stage = "ok"

\* C12: when the insert of a submission succeeds, the five form fields
\* become empty, the notification cycle starts and fetchBooks is called
\* once; the call is not awaited: handleSubmit is over (flag cleared) in
\* the step that starts the load, with that load outstanding.
C12_AcceptedInsertResetsAndRefreshes ==
  [][(insertAccepted /\ InsertReturn(MaxRefresh)) =>
       /\ \A f \in Fields : newBook'[f] = <<>>
       /\ showNotification' = "notification-enter"
       /\ loads' = loads (+) SetToBag({probeSent})
       /\ BagCardinality(loads') = BagCardinality(loads) + 1
       /\ loading' = TRUE
       /\ isSubmitting' = FALSE
       /\ insertCall' = <<>>]_vars

\* a row made of a full form is in the store, the form is empty again and
\* enabled, the notification is entering, and the load that handleSubmit
\* started is outstanding (the change notification of the insert is not
\* delivered yet)
C12_Witness ==
  /\ \E r \in table : r.id > Cardinality(SeedRows)
                      /\ \A f \in Fields : r[f] = <<"a">>
  /\ newBook = emptyForm
  /\ ~isSubmitting
  /\ insertCall = <<>>
  /\ showNotification = "notification-enter"
  /\ changes > 0
  /\ loads = SetToBag({probeSent})
  /\ loading

\* A submission from the title and the author alone, under the scheduling
\* of the page: a call sent to the store returns, a continuation that can
\* run does run, and the user dismisses a dialog that is up.
SubmitNext ==
  \/ Mount
  \/ ChangeDelivered(MaxRefresh)
  \/ \E load \in BagToSet(loads) : \E o \in ProbeOutcomes : ProbeReturn(load, o)
  \/ \E load \in BagToSet(loads) : \E o \in Outcomes : AllReturn(load, o)
  \/ \E load \in BagToSet(loads) : \E o \in Outcomes : StoreAnswersQuery(load, o)
  \/ \E load \in BagToSet(loads) : QueryReturn(load)
  \/ \E v \in FormValues : handleInputChange("title", v)
  \/ \E v \in FormValues : handleInputChange("author", v)
  \/ handleSubmit
  \/ dismissAlert
  \/ \E o \in Outcomes : StoreInsert(o, MaxIdForm)
  \/ InsertReturn(MaxRefresh)

SubmitFairness ==
  /\ WF_vars(\E load \in BagToSet(loads) :
               \E o \in ProbeOutcomes : ProbeReturn(load, o))
  /\ WF_vars(\E load \in BagToSet(loads) :
               \E o \in Outcomes : AllReturn(load, o))
  /\ WF_vars(\E load \in BagToSet(loads) :
               \E o \in Outcomes : StoreAnswersQuery(load, o))
  /\ WF_vars(\E load \in BagToSet(loads) : QueryReturn(load))
  /\ WF_vars(\E o \in Outcomes : StoreInsert(o, MaxIdForm))
  /\ WF_vars(InsertReturn(MaxRefresh))
  /\ WF_vars(dismissAlert)

SubmitLiveSpec == Init /\ [][SubmitNext]_vars /\ SubmitFairness

\* C13: a submission that passes validation sets the in-progress flag; the
\* flag is true exactly while that submission's insert is being handled,
\* and it is cleared again whether the insert was accepted or refused, so
\* it never stays true.
C13_SubmittingFlagIsCleared ==
  /\ [][(handleSubmit /\ ~invalid(newBook)) => isSubmitting']_vars
  /\ [](isSubmitting <=> insertCall # <<>>)
  /\ [][(insertCall # <<>> /\ insertCall' = <<>>) => ~isSubmitting']_vars
  /\ isSubmitting ~> ~isSubmitting

\* an accepted insert was handled: its row is in the store, the flag is
\* off again and the submit button is enabled for the next submission
C13_Witness ==
  /\ \E r \in table : r.id > Cardinality(SeedRows)
  /\ ~isSubmitting
  /\ insertCall = <<>>
  /\ newBook.title = <<"a">>
  /\ newBook.author = <<"a">>
  /\ ENABLED handleSubmit

\* C14: closing the modal sets the right padding of the page to "0", the
\* overflow to "auto" (scrollable) and the open state to false, whatever
\* padding the openings before it had set.
C14_CloseResetsScrollLock ==
  [][closeBookModal =>
       /\ paddingRight' = "0"
       /\ overflow' = "auto"
       /\ modalOpen' = FALSE]_vars

\* the modal was opened and closed: the entry it showed is still recorded,
\* the padding is "0" and the page scrolls
C14_Witness ==
  /\ selectedBook # <<>>
  /\ ~modalOpen
  /\ paddingRight = "0"
  /\ overflow = "auto"

\* C15: while the view is mounted every change of the table (a row
\* inserted, updated or deleted, approved or not) is notified, and every
\* notification delivered starts one load at its probe, whatever the
\* change was; once the view is torn down no notification is pending and
\* no load is started.
C15_ChangeStartsLoadWhileMounted ==
  /\ [][(phase = "mounted" /\ table' # table) =>
          changes' = changes + 1]_vars
  /\ [][ChangeDelivered(MaxLoads) =>
          /\ loads' = loads (+) SetToBag({probeSent})
          /\ loading' = TRUE]_vars
  /\ [](phase = "unmounted" => changes = 0)
  /\ [][phase = "unmounted" =>
          /\ CopiesIn(probeSent, loads') <= CopiesIn(probeSent, loads)
          /\ BagCardinality(loads') <= BagCardinality(loads)]_vars

\* the list shows the seed row, another writer's unapproved row is in the
\* table (the answer to the query is the same with and without it), and
\* its notification has started a load all the same
C15_Witness ==
  /\ phase = "mounted"
  /\ books = approvedQuery(SeedRows)
  /\ \E r \in table : ~r.approved
  /\ approvedQuery(table) = books
  /\ changes = 0
  /\ loads = SetToBag({probeSent})
  /\ loading

\* The list loader under the scheduling of the page: every store call of
\* a load returns, and a continuation that can run does run.
LoadFairness ==
  /\ WF_vars(\E load \in BagToSet(loads) :
               \E o \in ProbeOutcomes : ProbeReturn(load, o))
  /\ WF_vars(\E load \in BagToSet(loads) :
               \E o \in Outcomes : AllReturn(load, o))
  /\ WF_vars(\E load \in BagToSet(loads) :
               \E o \in Outcomes : StoreAnswersQuery(load, o))
  /\ WF_vars(\E load \in BagToSet(loads) : QueryReturn(load))

\* Overlapping loads against a table in which a moderator sets and clears
\* the approval of the seed row, with the teardown of the view.
OverlapNext ==
  \/ Mount
  \/ Unmount
  \/ ChangeDelivered(MaxLoads)
  \/ \E load \in BagToSet(loads) : \E o \in ProbeOutcomes : ProbeReturn(load, o)
  \/ \E load \in BagToSet(loads) : \E o \in Outcomes : AllReturn(load, o)
  \/ \E load \in BagToSet(loads) : \E o \in Outcomes : StoreAnswersQuery(load, o)
  \/ \E load \in BagToSet(loads) : QueryReturn(load)
  \/ \E id \in 1..Cardinality(SeedRows), flag \in BOOLEAN :
       ExternalSetApproved(id, flag)

OverlapLiveSpec == Init /\ [][OverlapNext]_vars /\ LoadFairness

\* load returns in this step: by a failed probe or with its query's answer
loadReturns(load) ==
  \/ \E o \in {"42P01", "error"} : ProbeReturn(load, o)
  \/ QueryReturn(load)

\* what a returning load writes to the list
written(load) ==
  IF load.pc = "probe" \/ load.failed THEN initialBooks ELSE load.data

\* C16: a load started while others are in flight aborts none of them; a
\* load that returns writes the list whatever else is in flight and
\* leaves the others in flight, and nothing else writes the list, so the
\* list is the one written by the load that returned last; once no more
\* notifications arrive, all loads resolve.
C16_LastResolvedLoadWins ==
  /\ [][ChangeDelivered(MaxLoads) =>
          \A load \in BagToSet(loads) :
            CopiesIn(load, loads') >= CopiesIn(load, loads)]_vars
  /\ [][\A load \in BagToSet(loads) :
          loadReturns(load) =>
            /\ books' = written(load)
            /\ loads' = loads (-) SetToBag({load})]_vars
  /\ [][books' # books =>
          \E load \in BagToSet(loads) : loadReturns(load)]_vars
  /\ <>[](changes = 0) => <>[](loads = EmptyBag)

\* all loads have resolved without a fallback and no notification is
\* pending, and the list is not the answer to the query on the table as it
\* is: the load that returned last had queried the store before a change
\* that a load returning earlier had seen
C16_Witness ==
  /\ phase = "mounted"
  /\ loads = EmptyBag
  /\ changes = 0
  /\ ~loading
  /\ books # initialBooks
  /\ books # approvedQuery(table)

\* The list loader when every store call succeeds, against a table that
\* other parties insert into, update and delete from.
AllOkNext ==
  \/ Mount
  \/ ChangeDelivered(MaxLoads)
  \/ \E load \in BagToSet(loads) : ProbeReturn(load, "ok")
  \/ \E load \in BagToSet(loads) : AllReturn(load, "ok")
  \/ \E load \in BagToSet(loads) : StoreAnswersQuery(load, "ok")
  \/ \E load \in BagToSet(loads) : QueryReturn(load)
  \/ \E id \in 1..MaxIdLoad, flag \in BOOLEAN : ExternalSetApproved(id, flag)
  \/ \E fs \in OtherFields, flag \in BOOLEAN :
       ExternalInsert(fs, flag, MaxIdLoad)
  \/ \E id \in 1..MaxIdLoad : ExternalDelete(id)

AllOkSpec == Init /\ [][AllOkNext]_vars

\* C17: with every store call succeeding, once all loads have resolved and
\* every change of the table has been notified and delivered, the list is
\* the approved rows of the table as it is, newest first.
C17_SettledListMatchesTable ==
  (phase = "mounted" /\ loads = EmptyBag /\ changes = 0) =>
    books = approvedQuery(table)

\* C18: at most one insert is in flight: while the in-progress flag is
\* true the inputs and the submit button are disabled, so no field is
\* edited, no submission is started and the insert in flight stays the
\* same one until it has been handled; loads and change notifications run
\* all the same (C18_Witness).
C18_OneInsertAtATime ==
  /\ [](insertCall # <<>> => isSubmitting)
  /\ [][isSubmitting =>
          /\ ~handleSubmit
          /\ ~(\E name \in Fields, v \in FormValues :
                 handleInputChange(name, v))
          /\ UNCHANGED newBook \/ insertAccepted]_vars
  /\ [][(insertCall # <<>> /\ insertCall' # <<>>) =>
          insertCall'[1].submission = insertCall[1].submission]_vars

\* the insert has been accepted and not yet handled (flag true), and in
\* the meantime its change notification was delivered and started a load,
\* which is outstanding
C18_Witness ==
  /\ isSubmitting
  /\ insertAccepted
  /\ changes = 0
  /\ loads # EmptyBag
  /\ books # <<>>

\* what is typed into the search box: nothing, a letter of many rows and a
\* letter of one sample row
SearchTerms == {<<>>, <<"a">>, <<"z">>}

\* The modal in use on a page that loads, searches and submits.
ModalNext ==
  \/ Mount
  \/ ChangeDelivered(MaxRefresh)
  \/ \E load \in BagToSet(loads) : \E o \in ProbeOutcomes : ProbeReturn(load, o)
  \/ \E load \in BagToSet(loads) : \E o \in Outcomes : AllReturn(load, o)
  \/ \E load \in BagToSet(loads) : \E o \in Outcomes : StoreAnswersQuery(load, o)
  \/ \E load \in BagToSet(loads) : QueryReturn(load)
  \/ handleInputChange("title", <<"a">>)
  \/ handleInputChange("author", <<"a">>)
  \/ handleSubmit
  \/ dismissAlert
  \/ \E o \in Outcomes : StoreInsert(o, MaxId)
  \/ InsertReturn(MaxRefresh)
  \/ \E term \in SearchTerms : setSearchTerm(term)
  \/ \E k \in 1..Len(tableRows), w \in ScrollBarWidths : openBookModal(k, w)
  \/ closeBookModal

ModalSpec == Init /\ [][ModalNext]_vars

\* C19: in every reachable state an open modal has a selected entry
\* recorded, and the overflow of the page is "hidden" exactly when the
\* modal is open, whatever loads, submissions and searches come between
\* the openings and closings.
C19_OpenModalHasEntryAndLock ==
  /\ modalOpen => selectedBook # <<>>
  /\ overflow = "hidden" <=> modalOpen

\* the modal is open on an entry and the page is locked while a search
\* string is typed, a submission is in progress and a load is in flight
C19_Witness ==
  /\ modalOpen
  /\ modalEntry # <<>>
  /\ overflow = "hidden"
  /\ searchTerm # <<>>
  /\ isSubmitting
  /\ loads # EmptyBag

\* C20: every load that returns, with an answer or through the catch
\* block, clears the loading flag; whenever the view has started a load
\* and none is outstanding the flag is false; and when every store call
\* returns, then once notifications stop the loads all terminate and the
\* flag stays false, so the placeholder does not stay for ever.
C20_LoadsTerminateAndClearFlag ==
  /\ [][\A load \in BagToSet(loads) :
          loadReturns(load) => loading' = FALSE]_vars
  /\ []((phase # "new" /\ loads = EmptyBag) => ~loading)
  /\ <>[](changes = 0) =>
       <>[](phase # "new" => (loads = EmptyBag /\ ~loading))

\* after a change of the table that was notified and delivered, no load
\* is outstanding, the last one ended in the fallback, and the table of
\* sample rows is on the page in place of the placeholder
C20_Witness ==
  /\ phase = "mounted"
  /\ table # SeedRows
  /\ changes = 0
  /\ loads = EmptyBag
  /\ ~loading
  /\ tableRows = initialBooks

====
